---- MODULE Spec2Model ----
(***************************************************************************)
(* Model of the conversion pipeline orchestrator of docling:               *)
(* BasePipeline.execute and PaginatedPipeline (_build_document,            *)
(* _apply_on_pages, _determine_status) of docling/pipeline/base_pipeline.py *)
(* One behaviour is one call of execute on one input document.             *)
(***************************************************************************)
EXTENDS Integers, Sequences, FiniteSets, TLC

\* ---------------------------------------------------------------- bounds
MaxPages == 3        \* in_doc.page_count ranges over 0..MaxPages
MaxBatch == 2        \* settings.perf.page_batch_size ranges over 1..MaxBatch
MaxElemBatch == 2    \* settings.perf.elements_batch_size ranges over 1..MaxElemBatch
MaxElems == 2        \* number of items of the assembled document, 0..MaxElems
NumStages == 2       \* len(self.build_pipe)
NumEnrich == 2       \* len(self.enrichment_pipe)

VARIABLES
    pc,                  \* position inside execute
    valid,               \* in_doc.valid
    in_backend,          \* in_doc._backend: "none", "pdf" (a PdfDocumentBackend) or "other"
    raises_on_error,     \* argument of execute
    page_count,          \* in_doc.page_count
    page_batch_size,     \* settings.perf.page_batch_size
    elements_batch_size, \* settings.perf.elements_batch_size
    status,              \* conv_res.status
    pages,               \* conv_res.pages
    errors,              \* conv_res.errors
    output,              \* conv_res.output, the items doc.iterate_items() yields
    chunks,              \* batches the chunkify iterator of line 143 has not yielded yet
    page_batch,          \* the batch of the current iteration (positions in pages)
    progress,            \* per page: 0 untouched, 1 initialized, k+1 left stage k
    st_i,                \* _determine_status: position of the page loop
    st_status,           \* _determine_status: the local variable status
    enrich_i,            \* _enrich_document: position in enrichment_pipe
    elem_chunks,         \* element batches the chunkify iterator of line 81 has not yielded yet
    exc,                 \* the exception in flight or handled ("none" when none was raised)
    outcome,             \* "running", "returned" or "raised"
    unloads,             \* number of calls of in_doc._backend.unload()
    phasesRun,           \* phases of execute that were entered, in order
    batchLog,            \* page batches fully drained, in order (page_no of each page)
    enrichLog            \* invocations of enrichment models, in order

\* one Page and its image cache (Page.get_image of datamodel/base_models.py)
VARIABLES
    pg_backend,          \* page._backend: "attached" or "None"
    image_cache,         \* page._image_cache: scale -> image, 0 for a scale not cached
    render_calls,        \* per scale, the calls of _backend.get_page_image(scale)
    images_made,         \* images the page backend has rendered so far
    get_calls,           \* calls of get_image so far
    last_get             \* the last call of get_image: its scale and what it returned

pageVars == << pg_backend, image_cache, render_calls, images_made, get_calls, last_get >>

\* one MsPowerpointDocumentBackend (backend/mspowerpoint_backend.py)
VARIABLES
    ppt_pc,              \* "idle", inside convert ("walk", "text") or "converted"
    source_kind,         \* what the backend was constructed on: "Path" or "BytesIO"
    path_or_stream,      \* self.path_or_stream: "Path", "BytesIO" or "None"
    stream_closes,       \* calls of close() on the byte stream
    unload_calls,        \* calls of unload()
    unload_raised,       \* whether a call of unload() raised
    parsed,              \* convert: Presentation(...) not called yet ("none"), "ok" or "failed"
    ppt_doc,             \* the DoclingDocument of convert: its nodes in order
    slides_left,         \* slides of the presentation not visited yet
    slide_ind,           \* walk_linear: index of the current slide
    parent_slide,        \* walk_linear: node of the current slide group, 0 for none
    para_no,             \* handle_text_elements: paragraphs handled so far in the document
    conv_outcome         \* convert: "none", "returned" or "raised"

pptxVars == << ppt_pc, source_kind, path_or_stream, stream_closes, unload_calls,
               unload_raised, parsed, ppt_doc,
               slides_left, slide_ind, parent_slide, para_no, conv_outcome >>

pipeVars == << pc, valid, in_backend, raises_on_error, page_count, page_batch_size,
               elements_batch_size, status, pages, errors, output, chunks, page_batch,
               progress, st_i, st_status, enrich_i, elem_chunks, exc, outcome,
               unloads, phasesRun, batchLog, enrichLog >>

vars == << pipeVars, pageVars, pptxVars >>

\* ------------------------------------------------------------ data model
ConversionStatus == {"PENDING", "STARTED", "FAILURE", "SUCCESS", "PARTIAL_SUCCESS"}

DoclingComponentType == {"DOCUMENT_BACKEND", "MODEL", "DOC_ASSEMBLER"}

\* Page(page_no=i): _backend defaults to None
Page(i) == [page_no |-> i, backend |-> "None"]

\* ErrorItem built by _determine_status; error_message is
\* f"Page {page.page_no} failed to parse.", kept as the page number it names
ErrorItem(p) == [component_type |-> "DOCUMENT_BACKEND",
                 module_name |-> "PdfPageBackend",
                 error_message |-> p.page_no]

\* an item of an assembled document is the set of enrichment models whose
\* is_processable accepts it: no model, one model or every model
ElementKinds == {{}} \cup { {j} : j \in 1..NumEnrich } \cup { 1..NumEnrich }

\* assembled documents of m items, in traversal order
Elements(m) == [1..m -> ElementKinds]

Min(a, b) == IF a <= b THEN a ELSE b

\* chunkify(iterator, chunk_size): successive chunks of chunk_size items
RECURSIVE chunkify(_, _)
chunkify(s, size) ==
    IF s = << >> THEN << >>
    ELSE LET k == Min(size, Len(s))
         IN  << SubSeq(s, 1, k) >> \o chunkify(SubSeq(s, k + 1, Len(s)), size)

\* initialize_page(doc, page): attaches the page backend
initialize_page(page) == [page EXCEPT !.backend = "attached"]

\* page._backend.is_valid() answers v: the page with the validity its backend
\* reported
is_valid(page, v) == [page EXCEPT !.backend = IF v THEN "valid" ELSE "invalid"]

\* _filter_elements(doc, model): positions of the items model accepts, in
\* traversal order
RECURSIVE FilterFrom(_, _, _)
FilterFrom(doc, model, i) ==
    IF i > Len(doc) THEN << >>
    ELSE (IF model \in doc[i] THEN << i >> ELSE << >>) \o FilterFrom(doc, model, i + 1)

filter_elements(doc, model) == FilterFrom(doc, model, 1)

\* ------------------------------------------------------------------ Init
NumScales == 3       \* render scales a page is asked for: 1..NumScales

MaxGets == 4         \* calls of Page.get_image in one behaviour

\* no execute call is running
PipeUnused ==
    /\ pc = "unused"
    /\ valid = FALSE
    /\ in_backend = "none"
    /\ raises_on_error = FALSE
    /\ page_count = 0
    /\ page_batch_size = 1
    /\ elements_batch_size = 1
    /\ status = "PENDING"
    /\ pages = << >>
    /\ errors = << >>
    /\ output = << >>
    /\ chunks = << >>
    /\ page_batch = << >>
    /\ progress = << >>
    /\ st_i = 1
    /\ st_status = "SUCCESS"
    /\ enrich_i = 1
    /\ elem_chunks = << >>
    /\ exc = "none"
    /\ outcome = "running"
    /\ unloads = 0
    /\ phasesRun = << >>
    /\ batchLog = << >>
    /\ enrichLog = << >>

\* a page that is not used
PageUnused ==
    /\ pg_backend = "None"
    /\ image_cache = [s \in 1..NumScales |-> 0]
    /\ render_calls = [s \in 1..NumScales |-> 0]
    /\ images_made = 0
    /\ get_calls = 0
    /\ last_get = [scale |-> 0, image |-> 0]

\* no PowerPoint backend is constructed
PptxUnused ==
    /\ ppt_pc = "unused"
    /\ source_kind = "Path"
    /\ path_or_stream = "Path"
    /\ stream_closes = 0
    /\ unload_calls = 0
    /\ unload_raised = FALSE
    /\ parsed = "none"
    /\ ppt_doc = << >>
    /\ slides_left = 0
    /\ slide_ind = -1
    /\ parent_slide = 0
    /\ para_no = 0
    /\ conv_outcome = "none"

Init ==
    /\ pc = "execute"
    /\ valid \in BOOLEAN
    /\ in_backend \in (IF valid THEN {"pdf", "other"} ELSE {"none", "pdf", "other"})
    /\ raises_on_error \in BOOLEAN
    /\ page_count \in 0..MaxPages
    /\ page_batch_size \in 1..MaxBatch
    /\ elements_batch_size \in 1..MaxElemBatch
    /\ status = "PENDING"
    /\ pages = << >>
    /\ errors = << >>
    /\ output = << >>
    /\ chunks = << >>
    /\ page_batch = << >>
    /\ progress = << >>
    /\ st_i = 1
    /\ st_status = "SUCCESS"
    /\ enrich_i = 1
    /\ elem_chunks = << >>
    /\ exc = "none"
    /\ outcome = "running"
    /\ unloads = 0
    /\ phasesRun = << >>
    /\ batchLog = << >>
    /\ enrichLog = << >>
    /\ PageUnused
    /\ PptxUnused

\* BatchConcurrencySettings declares its batch sizes as plain int fields: any
\* integer is accepted, zero standing for the values below 1
InitAnySettings ==
    /\ pc = "execute"
    /\ valid \in BOOLEAN
    /\ in_backend \in (IF valid THEN {"pdf", "other"} ELSE {"none", "pdf", "other"})
    /\ raises_on_error \in BOOLEAN
    /\ page_count \in 0..MaxPages
    /\ page_batch_size \in 0..MaxBatch
    /\ elements_batch_size \in 0..MaxElemBatch
    /\ status = "PENDING"
    /\ pages = << >>
    /\ errors = << >>
    /\ output = << >>
    /\ chunks = << >>
    /\ page_batch = << >>
    /\ progress = << >>
    /\ st_i = 1
    /\ st_status = "SUCCESS"
    /\ enrich_i = 1
    /\ elem_chunks = << >>
    /\ exc = "none"
    /\ outcome = "running"
    /\ unloads = 0
    /\ phasesRun = << >>
    /\ batchLog = << >>
    /\ enrichLog = << >>
    /\ PageUnused
    /\ PptxUnused

\* --------------------------------------------------------------- execute
\* variant of InputRejected: the validity check is skipped
Mut_InputRejected(v) == FALSE

\* line 38: if not in_doc.valid
InputRejected(v) == ~v

\* lines 34-40: the result is created and an invalid input returns at once
Execute_Validate ==
    /\ pc = "execute"
    /\ IF InputRejected(valid)
       THEN /\ status' = "FAILURE"
            /\ outcome' = "returned"
            /\ pc' = "done"
       ELSE /\ pc' = "build"
            /\ UNCHANGED << status, outcome >>
    /\ UNCHANGED << valid, in_backend, raises_on_error, page_count, page_batch_size,
                    elements_batch_size, pages, errors, output, chunks, page_batch,
                    progress, st_i, st_status, enrich_i, elem_chunks, exc,
                    unloads, phasesRun, batchLog, enrichLog >>
    /\ UNCHANGED << pageVars, pptxVars >>

\* variant of GuardOutcome: the guard swallows the fault whatever the flag
Mut_GuardOutcomeSwallow(raises) == "returned"

\* variant of GuardOutcome: the guard re-raises whatever the flag
Mut_GuardOutcomeRaise(raises) == "raised"

\* lines 53-56: raise e under raises_on_error, return conv_res otherwise
GuardOutcome(raises) == IF raises THEN "raised" ELSE "returned"

\* variant of Execute_Guard: the guard does not set the status
Mut_Execute_Guard ==
    /\ pc = "guard"
    /\ outcome' = GuardOutcome(raises_on_error)
    /\ pc' = "done"
    /\ UNCHANGED << valid, in_backend, raises_on_error, page_count, page_batch_size,
                    elements_batch_size, status, pages, errors, output, chunks, page_batch,
                    progress, st_i, st_status, enrich_i, elem_chunks, exc,
                    unloads, phasesRun, batchLog, enrichLog >>
    /\ UNCHANGED << pageVars, pptxVars >>

\* lines 51-56: the top-level guard
Execute_Guard ==
    /\ pc = "guard"
    /\ status' = "FAILURE"
    /\ outcome' = GuardOutcome(raises_on_error)
    /\ pc' = "done"
    /\ UNCHANGED << valid, in_backend, raises_on_error, page_count, page_batch_size,
                    elements_batch_size, pages, errors, output, chunks, page_batch,
                    progress, st_i, st_status, enrich_i, elem_chunks, exc,
                    unloads, phasesRun, batchLog, enrichLog >>
    /\ UNCHANGED << pageVars, pptxVars >>

\* ------------------------------------------------------- _build_document
\* positions 1..n of a list of n pages
Positions(n) == [i \in 1..n |-> i]

\* variant of PageBatches: batches one page too long
Mut_PageBatches(ps, size) == chunkify(Positions(Len(ps)), size + 1)

\* line 143: chunkify(conv_res.pages, settings.perf.page_batch_size)
PageBatches(ps, size) == chunkify(Positions(Len(ps)), size)

\* variant of NewPages: the loop counts from 1
Mut_NewPages(n) == [i \in 1..n |-> Page(i)]

\* lines 138-139: for i in range(0, in_doc.page_count): pages.append(Page(page_no=i))
NewPages(n) == [i \in 1..n |-> Page(i - 1)]

\* lines 129-139: the backend type check, then one Page per page of the input
Build_Start ==
    /\ pc = "build"
    /\ phasesRun' = Append(phasesRun, "build")
    /\ IF in_backend # "pdf"
       THEN /\ exc' = "RuntimeError"
            /\ pc' = "guard"
            /\ UNCHANGED << pages, progress, chunks >>
       ELSE /\ pages' = NewPages(page_count)
            /\ progress' = [i \in 1..page_count |-> 0]
            /\ chunks' = IF page_batch_size >= 1
                         THEN PageBatches(pages', page_batch_size)
                         ELSE << >>
            /\ pc' = "build_loop"
            /\ exc' = exc
    /\ UNCHANGED << valid, in_backend, raises_on_error, page_count, page_batch_size,
                    elements_batch_size, status, errors, output, page_batch,
                    st_i, st_status, enrich_i, elem_chunks, outcome,
                    unloads, batchLog, enrichLog >>
    /\ UNCHANGED << pageVars, pptxVars >>

\* line 143: the loop takes the next batch, or leaves the try block; chunkify
\* is a generator, so a batch size below 1 is met when the first batch is
\* pulled, where it is an error
Build_NextBatch ==
    /\ pc = "build_loop"
    /\ IF page_batch_size < 1
       THEN /\ exc' = "build"
            /\ pc' = "build_except"
            /\ UNCHANGED << page_batch, chunks >>
       ELSE /\ IF chunks # << >>
               THEN /\ page_batch' = Head(chunks)
                    /\ chunks' = Tail(chunks)
                    /\ pc' = "batch"
               ELSE /\ pc' = "build_finally"
                    /\ UNCHANGED << page_batch, chunks >>
            /\ exc' = exc
    /\ UNCHANGED << valid, in_backend, raises_on_error, page_count, page_batch_size,
                    elements_batch_size, status, pages, errors, output,
                    progress, st_i, st_status, enrich_i, elem_chunks, outcome,
                    unloads, phasesRun, batchLog, enrichLog >>
    /\ UNCHANGED << pageVars, pptxVars >>

\* an iterator hands its items over in order: the j-th page of the batch can
\* take step k only after the page before it has taken step k
InTurn(j) == IF j = 1 THEN TRUE ELSE progress[page_batch[j - 1]] > progress[page_batch[j]]

\* lines 147-149: map(functools.partial(self.initialize_page, in_doc), page_batch),
\* pulled one page at a time by the first stage
Build_InitPage(j) ==
    /\ pc = "batch"
    /\ j \in 1..Len(page_batch)
    /\ progress[page_batch[j]] = 0
    /\ InTurn(j)
    /\ pages' = [pages EXCEPT ![page_batch[j]] = initialize_page(@)]
    /\ progress' = [progress EXCEPT ![page_batch[j]] = 1]
    /\ UNCHANGED << pc, valid, in_backend, raises_on_error, page_count, page_batch_size,
                    elements_batch_size, status, errors, output, chunks, page_batch,
                    st_i, st_status, enrich_i, elem_chunks, exc, outcome,
                    unloads, phasesRun, batchLog, enrichLog >>
    /\ UNCHANGED << pageVars, pptxVars >>

\* variant of NextStage: only the last stage of build_pipe is applied
Mut_NextStage(k) == NumStages + 1

\* lines 119-123: a page that stage k has yielded is the input of stage k + 1;
\* k counts initialize_page (1) and the stages it has passed
NextStage(k) == k + 1

\* lines 119-123: stage k of build_pipe consumes the output of stage k-1
Build_ApplyStage(j) ==
    /\ pc = "batch"
    /\ j \in 1..Len(page_batch)
    /\ progress[page_batch[j]] \in 1..NumStages
    /\ InTurn(j)
    /\ progress' = [progress EXCEPT ![page_batch[j]] = NextStage(@)]
    /\ UNCHANGED << pc, valid, in_backend, raises_on_error, page_count, page_batch_size,
                    elements_batch_size, status, pages, errors, output, chunks, page_batch,
                    st_i, st_status, enrich_i, elem_chunks, exc, outcome,
                    unloads, phasesRun, batchLog, enrichLog >>
    /\ UNCHANGED << pageVars, pptxVars >>

\* variant of BatchDrained: the loop exhausts init_pages instead of pipeline_pages
Mut_BatchDrainedInit(batch, prog) == \A j \in 1..Len(batch) : prog[batch[j]] >= 1

\* variant of BatchDrained: the loop stops at the first page the chain yields
Mut_BatchDrained(batch, prog) == prog[batch[1]] = NumStages + 1

\* lines 154-155: for p in pipeline_pages: pass  -- the loop ends when the
\* last stage has yielded every page of the batch
BatchDrained(batch, prog) == \A j \in 1..Len(batch) : prog[batch[j]] = NumStages + 1

\* lines 154-158: the batch is exhausted, back to the head of the loop
Build_BatchDone ==
    /\ pc = "batch"
    /\ BatchDrained(page_batch, progress)
    /\ batchLog' = Append(batchLog, [j \in 1..Len(page_batch) |-> pages[page_batch[j]].page_no])
    /\ pc' = "build_loop"
    /\ UNCHANGED << valid, in_backend, raises_on_error, page_count, page_batch_size,
                    elements_batch_size, status, pages, errors, output, chunks, page_batch,
                    progress, st_i, st_status, enrich_i, elem_chunks, exc, outcome,
                    unloads, phasesRun, enrichLog >>
    /\ UNCHANGED << pageVars, pptxVars >>

\* initialize_page or a stage raises while the batch is being drained
Build_Raise ==
    /\ pc = "batch"
    /\ ~BatchDrained(page_batch, progress)
    /\ exc' = "build"
    /\ pc' = "build_except"
    /\ UNCHANGED << valid, in_backend, raises_on_error, page_count, page_batch_size,
                    elements_batch_size, status, pages, errors, output, chunks, page_batch,
                    progress, st_i, st_status, enrich_i, elem_chunks, outcome,
                    unloads, phasesRun, batchLog, enrichLog >>
    /\ UNCHANGED << pageVars, pptxVars >>

\* lines 160-167: except Exception: status = FAILURE, raise e
Build_Except ==
    /\ pc = "build_except"
    /\ status' = "FAILURE"
    /\ pc' = "build_finally"
    /\ UNCHANGED << valid, in_backend, raises_on_error, page_count, page_batch_size,
                    elements_batch_size, pages, errors, output, chunks, page_batch,
                    progress, st_i, st_status, enrich_i, elem_chunks, exc, outcome,
                    unloads, phasesRun, batchLog, enrichLog >>
    /\ UNCHANGED << pageVars, pptxVars >>

\* variant of UnloadBackend: the cleanup block forgets the backend
Mut_UnloadBackend(b, n) == n

\* lines 171-172: if in_doc._backend: in_doc._backend.unload()
UnloadBackend(b, n) == IF b # "none" THEN n + 1 ELSE n

\* variant of Build_Finally: the exception is not re-raised after the cleanup
Mut_Build_Finally ==
    /\ pc = "build_finally"
    /\ unloads' = UnloadBackend(in_backend, unloads)
    /\ pc' = "assemble"
    /\ UNCHANGED << valid, in_backend, raises_on_error, page_count, page_batch_size,
                    elements_batch_size, status, pages, errors, output, chunks, page_batch,
                    progress, st_i, st_status, enrich_i, elem_chunks, exc, outcome,
                    phasesRun, batchLog, enrichLog >>
    /\ UNCHANGED << pageVars, pptxVars >>

\* lines 169-174: finally, then the exception continues or the result returns
Build_Finally ==
    /\ pc = "build_finally"
    /\ unloads' = UnloadBackend(in_backend, unloads)
    /\ pc' = IF exc # "none" THEN "guard" ELSE "assemble"
    /\ UNCHANGED << valid, in_backend, raises_on_error, page_count, page_batch_size,
                    elements_batch_size, status, pages, errors, output, chunks, page_batch,
                    progress, st_i, st_status, enrich_i, elem_chunks, exc, outcome,
                    phasesRun, batchLog, enrichLog >>
    /\ UNCHANGED << pageVars, pptxVars >>

\* ---------------------------------------------------- _assemble_document
\* lines 47, 64-67: the assemble phase returns the result with its output
\* document doc (concrete pipelines override the default)
Assemble_Return(doc) ==
    /\ pc = "assemble"
    /\ phasesRun' = Append(phasesRun, "assemble")
    /\ output' = doc
    /\ pc' = "enrich"
    /\ UNCHANGED << valid, in_backend, raises_on_error, page_count, page_batch_size,
                    elements_batch_size, status, pages, errors, chunks, page_batch,
                    progress, st_i, st_status, enrich_i, elem_chunks, exc, outcome,
                    unloads, batchLog, enrichLog >>
    /\ UNCHANGED << pageVars, pptxVars >>

\* line 47: an overriding _assemble_document raises
Assemble_Raise ==
    /\ pc = "assemble"
    /\ phasesRun' = Append(phasesRun, "assemble")
    /\ exc' = "assemble"
    /\ pc' = "guard"
    /\ UNCHANGED << valid, in_backend, raises_on_error, page_count, page_batch_size,
                    elements_batch_size, status, pages, errors, output, chunks, page_batch,
                    progress, st_i, st_status, enrich_i, elem_chunks, outcome,
                    unloads, batchLog, enrichLog >>
    /\ UNCHANGED << pageVars, pptxVars >>

\* ------------------------------------------------------ _enrich_document
Range(s) == { s[i] : i \in 1..Len(s) }

\* the phase ph is entered (recorded once)
Enter(ph) == IF ph \in Range(phasesRun) THEN phasesRun ELSE Append(phasesRun, ph)

\* a sequence back to front
Reverse(s) == [i \in 1..Len(s) |-> s[Len(s) + 1 - i]]

\* variant of ElementBatches: the traversal is consumed back to front
Mut_ElementBatchesRev(doc, model, size) == chunkify(Reverse(filter_elements(doc, model)), size)

\* variant of ElementBatches: batches one element too long
Mut_ElementBatchesLong(doc, model, size) == chunkify(filter_elements(doc, model), size + 1)

\* lines 81-84: chunkify(_filter_elements(conv_res.output, model), elements_batch_size)
ElementBatches(doc, model, size) == chunkify(filter_elements(doc, model), size)

\* lines 80-84: the next model of enrichment_pipe and its element batches; a
\* batch size below 1 is an error of chunkify
Enrich_Model ==
    /\ pc = "enrich"
    /\ enrich_i <= NumEnrich
    /\ phasesRun' = Enter("enrich")
    /\ IF elements_batch_size < 1
       THEN /\ exc' = "enrich"
            /\ pc' = "guard"
            /\ UNCHANGED elem_chunks
       ELSE /\ elem_chunks' = ElementBatches(output, enrich_i, elements_batch_size)
            /\ pc' = "enrich_batches"
            /\ exc' = exc
    /\ UNCHANGED << valid, in_backend, raises_on_error, page_count, page_batch_size,
                    elements_batch_size, status, pages, errors, output, chunks, page_batch,
                    progress, st_i, st_status, enrich_i, outcome,
                    unloads, batchLog, enrichLog >>
    /\ UNCHANGED << pageVars, pptxVars >>

\* variant of Enrich_Batch: every invocation records an item in conv_res.errors
Mut_Enrich_Batch ==
    /\ pc = "enrich_batches"
    /\ IF elem_chunks # << >>
       THEN /\ enrichLog' = Append(enrichLog, [model |-> enrich_i, element_batch |-> Head(elem_chunks)])
            /\ elem_chunks' = Tail(elem_chunks)
            /\ errors' = Append(errors, [component_type |-> "MODEL",
                                          module_name |-> "BaseEnrichmentModel",
                                          error_message |-> enrich_i])
            /\ UNCHANGED << pc, enrich_i >>
       ELSE /\ enrich_i' = enrich_i + 1
            /\ pc' = "enrich"
            /\ UNCHANGED << enrichLog, elem_chunks, errors >>
    /\ UNCHANGED << valid, in_backend, raises_on_error, page_count, page_batch_size,
                    elements_batch_size, status, pages, output, chunks, page_batch,
                    progress, st_i, st_status, exc, outcome,
                    unloads, phasesRun, batchLog >>
    /\ UNCHANGED << pageVars, pptxVars >>

\* lines 81-90: the model is invoked on the next batch and its result exhausted,
\* or the batches of this model are finished
Enrich_Batch ==
    /\ pc = "enrich_batches"
    /\ IF elem_chunks # << >>
       THEN /\ enrichLog' = Append(enrichLog, [model |-> enrich_i, element_batch |-> Head(elem_chunks)])
            /\ elem_chunks' = Tail(elem_chunks)
            /\ UNCHANGED << pc, enrich_i >>
       ELSE /\ enrich_i' = enrich_i + 1
            /\ pc' = "enrich"
            /\ UNCHANGED << enrichLog, elem_chunks >>
    /\ UNCHANGED << valid, in_backend, raises_on_error, page_count, page_batch_size,
                    elements_batch_size, status, pages, errors, output, chunks, page_batch,
                    progress, st_i, st_status, exc, outcome,
                    unloads, phasesRun, batchLog >>
    /\ UNCHANGED << pageVars, pptxVars >>

\* lines 87-90: the model raises on a batch
Enrich_Raise ==
    /\ pc = "enrich_batches"
    /\ elem_chunks # << >>
    /\ exc' = "enrich"
    /\ pc' = "guard"
    /\ UNCHANGED << valid, in_backend, raises_on_error, page_count, page_batch_size,
                    elements_batch_size, status, pages, errors, output, chunks, page_batch,
                    progress, st_i, st_status, enrich_i, elem_chunks, outcome,
                    unloads, phasesRun, batchLog, enrichLog >>
    /\ UNCHANGED << pageVars, pptxVars >>

\* lines 92, 50, 179: enrichment returns and _determine_status is entered
Enrich_Return ==
    /\ pc = "enrich"
    /\ enrich_i > NumEnrich
    /\ phasesRun' = Append(Enter("enrich"), "status")
    /\ st_status' = "SUCCESS"
    /\ st_i' = 1
    /\ pc' = "status"
    /\ UNCHANGED << valid, in_backend, raises_on_error, page_count, page_batch_size,
                    elements_batch_size, status, pages, errors, output, chunks, page_batch,
                    progress, enrich_i, elem_chunks, exc, outcome,
                    unloads, batchLog, enrichLog >>
    /\ UNCHANGED << pageVars, pptxVars >>

\* ----------------------------------------------------- _determine_status
\* variant of PageStatus: the validity test is inverted
Mut_PageStatusInverted(page, st) == IF page.backend = "valid" THEN "PARTIAL_SUCCESS" ELSE st

\* variant of PageStatus: an invalid page does not downgrade the status
Mut_PageStatusKeep(page, st) == st

\* variant of PageStatus: an invalid page fails the conversion
Mut_PageStatusFailure(page, st) == IF page.backend = "invalid" THEN "FAILURE" ELSE st

\* lines 181-189: the status after looking at one page
PageStatus(page, st) == IF page.backend = "invalid" THEN "PARTIAL_SUCCESS" ELSE st

\* variant of PageErrors: the item of an invalid page is put in front
Mut_PageErrorsPrepend(page, errs) ==
    IF page.backend = "invalid" THEN << ErrorItem(page) >> \o errs ELSE errs

\* variant of PageErrors: an item is appended for every page
Mut_PageErrors(page, errs) == Append(errs, ErrorItem(page))

\* lines 181-188: the error list after looking at one page
PageErrors(page, errs) == IF page.backend = "invalid" THEN Append(errs, ErrorItem(page)) ELSE errs

\* lines 180-189: one iteration of the page loop; page._backend.is_valid()
\* on a page without backend is an AttributeError
Status_Page(v) ==
    /\ pc = "status"
    /\ st_i <= Len(pages)
    /\ IF pages[st_i].backend = "None"
       THEN /\ exc' = "status"
            /\ pc' = "guard"
            /\ UNCHANGED << pages, errors, st_status, st_i >>
       ELSE /\ pages' = [pages EXCEPT ![st_i] = is_valid(@, v)]
            /\ errors' = PageErrors(pages'[st_i], errors)
            /\ st_status' = PageStatus(pages'[st_i], st_status)
            /\ st_i' = st_i + 1
            /\ UNCHANGED << exc, pc >>
    /\ UNCHANGED << valid, in_backend, raises_on_error, page_count, page_batch_size,
                    elements_batch_size, status, output, chunks, page_batch,
                    progress, enrich_i, elem_chunks, outcome,
                    unloads, phasesRun, batchLog, enrichLog >>
    /\ UNCHANGED << pageVars, pptxVars >>

\* line 181: is_valid() of a page backend raises
Status_Raise ==
    /\ pc = "status"
    /\ st_i <= Len(pages)
    /\ exc' = "status"
    /\ pc' = "guard"
    /\ UNCHANGED << valid, in_backend, raises_on_error, page_count, page_batch_size,
                    elements_batch_size, status, pages, errors, output, chunks, page_batch,
                    progress, st_i, st_status, enrich_i, elem_chunks, outcome,
                    unloads, phasesRun, batchLog, enrichLog >>
    /\ UNCHANGED << pageVars, pptxVars >>

\* variant of Status_Return: the page loop is entered again instead of returning
Mut_Status_Return ==
    /\ pc = "status"
    /\ st_i > Len(pages)
    /\ status' = st_status
    /\ UNCHANGED << pc, outcome >>
    /\ UNCHANGED << valid, in_backend, raises_on_error, page_count, page_batch_size,
                    elements_batch_size, pages, errors, output, chunks, page_batch,
                    progress, st_i, st_status, enrich_i, elem_chunks, exc,
                    unloads, phasesRun, batchLog, enrichLog >>
    /\ UNCHANGED << pageVars, pptxVars >>

\* lines 191, 50, 56: the computed status is stored and execute returns
Status_Return ==
    /\ pc = "status"
    /\ st_i > Len(pages)
    /\ status' = st_status
    /\ outcome' = "returned"
    /\ pc' = "done"
    /\ UNCHANGED << valid, in_backend, raises_on_error, page_count, page_batch_size,
                    elements_batch_size, pages, errors, output, chunks, page_batch,
                    progress, st_i, st_status, enrich_i, elem_chunks, exc,
                    unloads, phasesRun, batchLog, enrichLog >>
    /\ UNCHANGED << pageVars, pptxVars >>

\* ------------------------------------------------------- Page.get_image
\* base_models.py lines 144-160: a Page as constructed, _backend None and an
\* empty _image_cache
InitPage ==
    /\ PipeUnused
    /\ PptxUnused
    /\ pg_backend = "None"
    /\ image_cache = [s \in 1..NumScales |-> 0]
    /\ render_calls = [s \in 1..NumScales |-> 0]
    /\ images_made = 0
    /\ get_calls = 0
    /\ last_get = [scale |-> 0, image |-> 0]

\* variant of CacheMiss: the cache is never consulted
Mut_CacheMiss(cache, scale) == TRUE

\* line 165: if not scale in self._image_cache
CacheMiss(cache, scale) == cache[scale] = 0

\* lines 162-167: get_image(scale); an image is the number of the render
\* that made it, 0 is None
GetImage(scale) ==
    /\ get_calls < MaxGets
    /\ get_calls' = get_calls + 1
    /\ IF pg_backend = "None"
       THEN /\ last_get' = [scale |-> scale, image |-> image_cache[scale]]
            /\ UNCHANGED << image_cache, render_calls, images_made >>
       ELSE /\ IF CacheMiss(image_cache, scale)
               THEN /\ images_made' = images_made + 1
                    /\ render_calls' = [render_calls EXCEPT ![scale] = @ + 1]
                    /\ image_cache' = [image_cache EXCEPT ![scale] = images_made + 1]
               ELSE UNCHANGED << image_cache, render_calls, images_made >>
            /\ last_get' = [scale |-> scale, image |-> image_cache'[scale]]
    /\ UNCHANGED pg_backend
    /\ UNCHANGED << pipeVars, pptxVars >>

\* a caller asks for the image at one of the scales
Page_GetImage(scale) == GetImage(scale)

\* lines 169-171: the image property is get_image(scale=1)
Page_Image == GetImage(1)

\* lines 154-156: _backend is a plain attribute; a pipeline attaches a page
\* backend to it and clears it again
Page_SetBackend(b) ==
    /\ pg_backend # b
    /\ pg_backend' = b
    /\ UNCHANGED << image_cache, render_calls, images_made, get_calls, last_get >>
    /\ UNCHANGED << pipeVars, pptxVars >>

NextPage ==
    \/ \E scale \in 1..NumScales : Page_GetImage(scale)
    \/ Page_Image
    \/ \E b \in {"attached", "None"} : Page_SetBackend(b)

SpecPage == InitPage /\ [][NextPage]_vars

\* ------------------------------------------- MsPowerpointDocumentBackend
MaxUnloads == 3      \* calls of unload() in one behaviour
MaxSlides == 2       \* slides of the presentation
MaxRuns == 2         \* runs (a:r) of one paragraph
MaxNodes == 5        \* nodes of the converted document
MaxParas == 2        \* paragraphs of the text frames of the presentation

\* lines 31-40: a backend constructed on a path or on a byte stream
InitPptx ==
    /\ PipeUnused
    /\ PageUnused
    /\ ppt_pc = "idle"
    /\ source_kind \in {"Path", "BytesIO"}
    /\ path_or_stream = source_kind
    /\ stream_closes = 0
    /\ unload_calls = 0
    /\ unload_raised = FALSE
    /\ parsed = "none"
    /\ ppt_doc = << >>
    /\ slides_left = 0
    /\ slide_ind = -1
    /\ parent_slide = 0
    /\ para_no = 0
    /\ conv_outcome = "none"

\* line 49: isinstance(self.path_or_stream, BytesIO)
UnloadCloses(p) == p = "BytesIO"

\* variant of Unloaded: the reference is kept
Mut_Unloaded(p) == p

\* line 52: self.path_or_stream = None
Unloaded(p) == "None"

\* lines 48-52: unload(); close() exists on a byte stream only, on anything
\* else the call is an AttributeError
Pptx_Unload ==
    /\ ppt_pc \in {"idle", "converted"}
    /\ unload_calls < MaxUnloads
    /\ unload_calls' = unload_calls + 1
    /\ IF UnloadCloses(path_or_stream)
       THEN IF path_or_stream = "BytesIO"
            THEN /\ stream_closes' = stream_closes + 1
                 /\ path_or_stream' = Unloaded(path_or_stream)
                 /\ UNCHANGED unload_raised
            ELSE /\ unload_raised' = TRUE
                 /\ UNCHANGED << stream_closes, path_or_stream >>
       ELSE /\ path_or_stream' = Unloaded(path_or_stream)
            /\ UNCHANGED << stream_closes, unload_raised >>
    /\ UNCHANGED << ppt_pc, source_kind, parsed, ppt_doc, slides_left, slide_ind,
                    parent_slide, para_no, conv_outcome >>
    /\ UNCHANGED << pipeVars, pageVars >>

\* a node of the document: group, page or item; parent is the position of
\* the parent node (0: none given), page_no the page of its provenance
\* (-1: no provenance), slide and para the slide and the paragraph it was
\* added for
Node(kind, label, parent, page_no, slide, para) ==
    [kind |-> kind, label |-> label, parent |-> parent, page_no |-> page_no,
     slide |-> slide, para |-> para]

\* lines 71-83: generate_prov(shape, slide_ind, text).page_no
generate_prov(ind) == ind

\* variant of ConvertOnParseError: the exception is not caught
Mut_ConvertOnParseError(d) == [outcome |-> "raised", doc |-> d]

\* lines 64-66: except Exception: log, return doc
ConvertOnParseError(d) == [outcome |-> "returned", doc |-> d]

\* lines 60-66: convert() when Presentation(self.path_or_stream) raises;
\* convert is called on a backend that still holds its source
Pptx_Convert_ParseFails ==
    /\ ppt_pc = "idle"
    /\ path_or_stream # "None"
    /\ parsed' = "failed"
    /\ ppt_doc' = ConvertOnParseError(<< >>).doc
    /\ conv_outcome' = ConvertOnParseError(<< >>).outcome
    /\ ppt_pc' = "converted"
    /\ UNCHANGED << source_kind, path_or_stream, stream_closes, unload_calls,
                    unload_raised, slides_left, slide_ind, parent_slide, para_no >>
    /\ UNCHANGED << pipeVars, pageVars >>

\* lines 60-67, 247-257: convert() when the presentation opens with n slides
Pptx_Convert_Parsed(n) ==
    /\ ppt_pc = "idle"
    /\ path_or_stream # "None"
    /\ parsed' = "ok"
    /\ ppt_doc' = << >>
    /\ slides_left' = n
    /\ ppt_pc' = "walk"
    /\ UNCHANGED << source_kind, path_or_stream, stream_closes, unload_calls,
                    unload_raised, slide_ind, parent_slide, para_no, conv_outcome >>
    /\ UNCHANGED << pipeVars, pageVars >>

\* lines 260-267: the next slide: its CHAPTER group and its page
Pptx_NextSlide ==
    /\ ppt_pc = "walk"
    /\ slides_left > 0
    /\ Len(ppt_doc) + 2 <= MaxNodes
    /\ slides_left' = slides_left - 1
    /\ slide_ind' = slide_ind + 1
    /\ parent_slide' = Len(ppt_doc) + 1
    /\ ppt_doc' = ppt_doc \o << Node("group", "CHAPTER", 0, -1, slide_ind + 1, 0),
                                Node("page", "", 0, slide_ind + 1, slide_ind + 1, 0) >>
    /\ UNCHANGED << ppt_pc, source_kind, path_or_stream, stream_closes, unload_calls,
                    unload_raised, parsed, para_no, conv_outcome >>
    /\ UNCHANGED << pipeVars, pageVars >>

\* what walk_linear sees of the table of a shape: no table, a table whose
\* cells are all empty, or a table with a cell that has text
ShapeTables == {"none", "empty", "cells"}

\* lines 183-245: handle_tables adds a table, without parent, when the table
\* has a cell with text
TableNodes(table) ==
    IF table = "cells"
    THEN << Node("table", "TABLE", 0, generate_prov(slide_ind), slide_ind, 0) >>
    ELSE << >>

\* lines 175-181: handle_pictures
PictureNodes(is_picture) ==
    IF is_picture
    THEN << Node("picture", "PICTURE", parent_slide, generate_prov(slide_ind), slide_ind, 0) >>
    ELSE << >>

\* lines 152-173: handle_title on a placeholder with text
TitleNodes(text) ==
    IF text = "title"
    THEN << Node("text", "TITLE", parent_slide, generate_prov(slide_ind), slide_ind, 0) >>
    ELSE IF text = "subtitle"
    THEN << Node("text", "SECTION_HEADER", parent_slide, generate_prov(slide_ind),
                 slide_ind, 0) >>
    ELSE << >>

\* what walk_linear sees of the text of a shape: none (lines 280-288), a
\* placeholder of some type, or a text frame of paragraphs
ShapeTexts == {"none", "title", "subtitle", "placeholder", "frame"}

\* lines 270-297: one shape of the current slide
Pptx_Shape(table, is_picture, text) ==
    /\ ppt_pc = "walk"
    /\ parent_slide # 0
    /\ LET added == TableNodes(table) \o PictureNodes(is_picture)
                        \o TitleNodes(text)
       IN  /\ Len(ppt_doc) + Len(added) <= MaxNodes
           /\ ppt_doc' = ppt_doc \o added
    /\ ppt_pc' = IF text = "frame" THEN "text" ELSE "walk"
    /\ UNCHANGED << source_kind, path_or_stream, stream_closes, unload_calls,
                    unload_raised, parsed, slides_left, slide_ind, parent_slide,
                    para_no, conv_outcome >>
    /\ UNCHANGED << pipeVars, pageVars >>

\* variant of IsAList: only the paragraph level makes a list
Mut_IsAList(buChar, buAutoNum, level) == level > 0

\* lines 91-107: is_a_list of a paragraph
IsAList(buChar, buAutoNum, level) == buChar \/ buAutoNum \/ level > 0

\* lines 121-134: e_is_a_list_item of a run of the paragraph
IsAListItem(buChar, buAutoNum) == buChar \/ buAutoNum

\* lines 119-149: the text items of the runs from the i-th on; a run is
\* TRUE when its stripped text is not empty
RECURSIVE RunNodes(_, _, _, _, _, _)
RunNodes(runs, i, buChar, buAutoNum, new_list, para) ==
    IF i > Len(runs) THEN << >>
    ELSE (IF ~runs[i] THEN << >>
          ELSE IF IsAListItem(buChar, buAutoNum)
          THEN << Node("text", "LIST_ITEM", new_list, generate_prov(slide_ind),
                       slide_ind, para) >>
          ELSE << Node("text", "PARAGRAPH", parent_slide, generate_prov(slide_ind),
                       slide_ind, para) >>)
         \o RunNodes(runs, i + 1, buChar, buAutoNum, new_list, para)

\* lines 87-149: one paragraph of the text frame
Pptx_Paragraph(buChar, buAutoNum, level, runs) ==
    /\ ppt_pc = "text"
    /\ para_no < MaxParas
    /\ LET is_a_list == IsAList(buChar, buAutoNum, level)
           group == IF is_a_list
                    THEN << Node("group", "LIST", parent_slide, -1, slide_ind, para_no + 1) >>
                    ELSE << >>
           new_list == IF is_a_list THEN Len(ppt_doc) + 1 ELSE 0
           added == group \o RunNodes(runs, 1, buChar, buAutoNum, new_list, para_no + 1)
       IN  /\ Len(ppt_doc) + Len(added) <= MaxNodes
           /\ ppt_doc' = ppt_doc \o added
    /\ para_no' = para_no + 1
    /\ UNCHANGED << ppt_pc, source_kind, path_or_stream, stream_closes, unload_calls,
                    unload_raised, parsed, slides_left, slide_ind, parent_slide,
                    conv_outcome >>
    /\ UNCHANGED << pipeVars, pageVars >>

\* line 150: handle_text_elements returns to the shape loop
Pptx_TextDone ==
    /\ ppt_pc = "text"
    /\ ppt_pc' = "walk"
    /\ UNCHANGED << source_kind, path_or_stream, stream_closes, unload_calls,
                    unload_raised, parsed, ppt_doc, slides_left, slide_ind,
                    parent_slide, para_no, conv_outcome >>
    /\ UNCHANGED << pipeVars, pageVars >>

\* lines 302, 67-69: walk_linear and convert return the document
Pptx_Convert_Return ==
    /\ ppt_pc = "walk"
    /\ slides_left = 0
    /\ conv_outcome' = "returned"
    /\ ppt_pc' = "converted"
    /\ UNCHANGED << source_kind, path_or_stream, stream_closes, unload_calls,
                    unload_raised, parsed, ppt_doc, slides_left, slide_ind,
                    parent_slide, para_no >>
    /\ UNCHANGED << pipeVars, pageVars >>

Runs == UNION { [1..n -> BOOLEAN] : n \in 0..MaxRuns }

NextPptx ==
    \/ Pptx_Unload
    \/ Pptx_Convert_ParseFails
    \/ \E n \in 0..MaxSlides : Pptx_Convert_Parsed(n)
    \/ Pptx_NextSlide
    \/ \E table \in ShapeTables : \E is_picture \in BOOLEAN :
         \E text \in ShapeTexts : Pptx_Shape(table, is_picture, text)
    \/ \E buChar, buAutoNum \in BOOLEAN :
         \E level \in 0..1 : \E runs \in Runs :
            Pptx_Paragraph(buChar, buAutoNum, level, runs)
    \/ Pptx_TextDone
    \/ Pptx_Convert_Return

SpecPptx == InitPptx /\ [][NextPptx]_vars

\* --------------------------------------------------------- specification
Next ==
    \/ Execute_Validate
    \/ Build_Start
    \/ Build_NextBatch
    \/ \E j \in 1..MaxBatch : Build_InitPage(j)
    \/ \E j \in 1..MaxBatch : Build_ApplyStage(j)
    \/ Build_BatchDone
    \/ Build_Raise
    \/ Build_Except
    \/ Build_Finally
    \/ \E m \in 0..MaxElems : \E doc \in Elements(m) : Assemble_Return(doc)
    \/ Assemble_Raise
    \/ Enrich_Model
    \/ Enrich_Batch
    \/ Enrich_Raise
    \/ Enrich_Return
    \/ \E v \in BOOLEAN : Status_Page(v)
    \/ Status_Raise
    \/ Status_Return
    \/ Execute_Guard

Spec == Init /\ [][Next]_vars

\* execute under settings that hold any batch size
SpecAnySettings == InitAnySettings /\ [][Next]_vars

\* execute is one sequential call: while a step of it can be taken, one is
SpecFair == Init /\ [][Next]_vars /\ WF_vars(Next)

\* ----------------------------------------------------------- properties
Done == pc = "done"

\* number of pages whose backend reports invalid
InvalidPages == { i \in 1..Len(pages) : pages[i].backend = "invalid" }

AllPagesValid == \A i \in 1..Len(pages) : pages[i].backend = "valid"

\* C1: for a valid input whose backend was acquired, unload() has been called
\* exactly once when execute returns or raises, whatever happened inside
\* _build_document.
C1_UnloadExactlyOnce ==
    (Done /\ valid /\ in_backend # "none") => unloads = 1

\* C2: an invalid input returns FAILURE with an empty error list; no page is
\* created, no phase runs and unload() is never called.
C2_InvalidInput ==
    ~valid =>
        /\ pc \in {"execute", "done"}
        /\ pages = << >>
        /\ errors = << >>
        /\ phasesRun = << >>
        /\ enrichLog = << >>
        /\ unloads = 0
        /\ Done => (status = "FAILURE" /\ outcome = "returned")

C2_Witness == Done /\ ~valid /\ in_backend = "pdf" /\ page_count > 0

\* C3: a valid document with k invalid page backends, 0 < k < pageCount, and
\* no fault, returns PARTIAL_SUCCESS with exactly k error items, one per
\* invalid page, each of component DOCUMENT_BACKEND and naming the page's
\* index; valid pages contribute none.
C3_PartialSuccess ==
    (/\ Done /\ valid /\ exc = "none"
     /\ Cardinality(InvalidPages) > 0
     /\ Cardinality(InvalidPages) < page_count)
    =>
        /\ outcome = "returned"
        /\ status = "PARTIAL_SUCCESS"
        /\ Len(errors) = Cardinality(InvalidPages)
        /\ \A e \in 1..Len(errors) :
              /\ errors[e].component_type = "DOCUMENT_BACKEND"
              /\ \E i \in InvalidPages : errors[e].error_message = pages[i].page_no
        /\ \A i \in InvalidPages :
              Cardinality({ e \in 1..Len(errors) : errors[e].error_message = i - 1 }) = 1

C3_Witness ==
    /\ Done /\ valid /\ exc = "none"
    /\ page_count = 3
    /\ InvalidPages = {1, 3}
    /\ Len(errors) = 2

\* C4: a valid document whose page backends all report valid, with no fault,
\* returns SUCCESS and an empty error list.
C4_AllValidSuccess ==
    (Done /\ valid /\ exc = "none" /\ AllPagesValid)
    => (outcome = "returned" /\ status = "SUCCESS" /\ errors = << >>)

C4_Witness ==
    Done /\ valid /\ exc = "none" /\ AllPagesValid /\ Len(pages) >= 2 /\ Len(batchLog) >= 2

\* C5: a finished execute has status SUCCESS only if the input was valid, every
\* page backend reported valid and no phase raised; otherwise the status is
\* PARTIAL_SUCCESS or FAILURE.
C5_SuccessOnlyIf ==
    Done =>
        /\ status = "SUCCESS" => (valid /\ exc = "none" /\ AllPagesValid
                                   /\ Len(pages) = page_count)
        /\ ~(valid /\ exc = "none" /\ AllPagesValid)
              => status \in {"PARTIAL_SUCCESS", "FAILURE"}

C5_Witness ==
    Done /\ valid /\ exc = "none" /\ InvalidPages # {} /\ status = "PARTIAL_SUCCESS"
    /\ enrichLog # << >>

\* C6: a fault raised while a page batch is initialized or run through the
\* stage chain aborts the document: no further batch is processed, assemble,
\* enrich and status determination do not run, the status becomes FAILURE, the
\* fault is re-raised iff raises_on_error, and the backend has been released
\* when execute returns or raises.
C6_BuildFaultAborts ==
    /\ [](exc = "build" =>
            /\ pc \in {"build_except", "build_finally", "guard", "done"}
            /\ phasesRun = << "build" >>
            /\ enrichLog = << >>
            /\ errors = << >>
            /\ pc \in {"build_finally", "guard", "done"} => status = "FAILURE"
            /\ pc \in {"guard", "done"} => unloads = 1
            /\ Done => (outcome = "raised" <=> raises_on_error)
            /\ Done => (outcome = "returned" <=> ~raises_on_error))
    /\ [][exc = "build" => UNCHANGED << progress, pages, batchLog, chunks, page_batch >>]_vars

C6_Witness ==
    Done /\ exc = "build" /\ chunks # << >> /\ batchLog # << >> /\ raises_on_error

\* C7: a fault raised by assemble, enrich or status determination reaches the
\* top-level guard: the status is FAILURE, later phases are skipped, and the
\* fault is re-raised iff raises_on_error.
C7_LatePhaseFault ==
    /\ [](exc \in {"assemble", "enrich", "status"} =>
            /\ pc \in {"guard", "done"}
            /\ exc = "assemble" => (phasesRun = << "build", "assemble" >> /\ enrichLog = << >>)
            /\ exc = "enrich" => phasesRun = << "build", "assemble", "enrich" >>
            /\ exc = "status" => phasesRun = << "build", "assemble", "enrich", "status" >>
            /\ Done => status = "FAILURE"
            /\ Done => (outcome = "raised" <=> raises_on_error)
            /\ Done => (outcome = "returned" <=> ~raises_on_error))
    /\ [][(exc \in {"assemble", "enrich", "status"}) =>
            UNCHANGED << phasesRun, enrichLog, errors, output, st_i, st_status, enrich_i >>]_vars

C7_Witness ==
    Done /\ exc = "status" /\ st_status = "PARTIAL_SUCCESS" /\ st_i <= Len(pages)
    /\ status = "FAILURE" /\ outcome = "returned"

\* C8: with raises_on_error false, execute never propagates a fault: it
\* always returns a result, of status FAILURE when a fault occurred.
C8_NoPropagation ==
    ~raises_on_error =>
        /\ outcome # "raised"
        /\ Done => outcome = "returned"
        /\ (Done /\ exc # "none") => status = "FAILURE"

C8_Witness ==
    Done /\ ~raises_on_error /\ exc = "enrich" /\ outcome = "returned" /\ enrichLog # << >>

IsPrefix(s, t) == Len(s) <= Len(t) /\ \A i \in 1..Len(s) : s[i] = t[i]

\* C9: the phases run in the order build, assemble, enrich, status
\* determination, each finished before the next starts: assemble starts only
\* when every page batch went through the whole stage chain, enrichment only
\* after assemble returned, status determination only after every
\* enrichment model finished its batches.
C9_PhaseOrder ==
    /\ IsPrefix(phasesRun, << "build", "assemble", "enrich", "status" >>)
    /\ (pc = "assemble" \/ "assemble" \in Range(phasesRun)) =>
          /\ chunks = << >>
          /\ Len(pages) = page_count
          /\ \A i \in 1..page_count : progress[i] = NumStages + 1
          /\ \A i \in 1..page_count : \E b \in 1..Len(batchLog) : (i - 1) \in Range(batchLog[b])
    /\ (pc \in {"enrich", "enrich_batches"} \/ enrichLog # << >>) =>
          (pc # "assemble" /\ "assemble" \in Range(phasesRun))
    /\ (pc = "status" \/ "status" \in Range(phasesRun)) =>
          (elem_chunks = << >> /\ enrich_i = NumEnrich + 1)

C9_Witness ==
    pc = "status" /\ Len(batchLog) >= 2 /\ Len(enrichLog) >= 2 /\ page_count = MaxPages

RECURSIVE Flatten(_)
Flatten(ss) == IF ss = << >> THEN << >> ELSE Head(ss) \o Flatten(Tail(ss))

BuildLoopFinished ==
    \/ pc \in {"build_finally", "assemble"} /\ exc = "none"
    \/ "assemble" \in Range(phasesRun)

\* sizes of the page batches of 10 pages with page_batch_size 4
TenSizes ==
    LET ten == PageBatches([i \in 1..10 |-> Page(i - 1)], 4)
    IN  [k \in 1..Len(ten) |-> Len(ten[k])]

\* C10: with batch size b >= 1 and n pages, the build phase processes
\* ceil(n/b) contiguous batches, all but the last of size b, the last of size
\* n mod b (or b when b divides n), with no page reordered, duplicated or
\* dropped; b = 4 and n = 10 give sizes 4, 4, 2.
C10_Batching ==
    /\ IsPrefix(Flatten(batchLog), [i \in 1..page_count |-> i - 1])
    /\ BuildLoopFinished =>
          /\ Len(batchLog) = (page_count + page_batch_size - 1) \div page_batch_size
          /\ \A k \in 1..(Len(batchLog) - 1) : Len(batchLog[k]) = page_batch_size
          /\ batchLog # << >> =>
                Len(batchLog[Len(batchLog)]) =
                    IF page_count % page_batch_size = 0 THEN page_batch_size
                    ELSE page_count % page_batch_size
          /\ Flatten(batchLog) = [i \in 1..page_count |-> i - 1]
    /\ TenSizes = << 4, 4, 2 >>

C10_Witness ==
    /\ BuildLoopFinished
    /\ page_count = 3 /\ page_batch_size = 2
    /\ batchLog = << << 0, 1 >>, << 2 >> >>


\* positions of the items of the assembled document that model j accepts
Accepted(j) == { i \in 1..Len(output) : j \in output[i] }

\* the batches model j was invoked on, in order of invocation
RECURSIVE BatchesOf(_, _)
BatchesOf(log, j) ==
    IF log = << >> THEN << >>
    ELSE (IF Head(log).model = j THEN << Head(log).element_batch >> ELSE << >>)
         \o BatchesOf(Tail(log), j)

\* sizes of the batches of a document of 41 items of which the model accepts 40
FortySizes ==
    LET forty == ElementBatches([i \in 1..41 |-> IF i = 7 THEN {} ELSE {1}], 1, 16)
    IN  [k \in 1..Len(forty) |-> Len(forty[k])]

\* C11: an enrichment model that accepts m items of the assembled document
\* is invoked ceil(m/e) times, e = elements_batch_size, on batches of e items
\* except a possibly shorter last one; items it rejects are never passed to
\* it and for m = 0 it is never invoked; e = 16 and m = 40 give 16, 16, 8.
C11_EnrichBatching ==
    /\ \A k \in 1..Len(enrichLog) :
          /\ enrichLog[k].element_batch # << >>
          /\ Len(enrichLog[k].element_batch) <= elements_batch_size
          /\ Range(enrichLog[k].element_batch) \subseteq Accepted(enrichLog[k].model)
    /\ \A j \in 1..NumEnrich :
          (j < enrich_i /\ exc # "enrich") =>
             LET bs == BatchesOf(enrichLog, j)
                 m  == Cardinality(Accepted(j))
             IN  /\ Len(bs) = (m + elements_batch_size - 1) \div elements_batch_size
                 /\ \A k \in 1..(Len(bs) - 1) : Len(bs[k]) = elements_batch_size
                 /\ bs # << >> =>
                       Len(bs[Len(bs)]) = IF m % elements_batch_size = 0
                                          THEN elements_batch_size
                                          ELSE m % elements_batch_size
                 /\ Range(Flatten(bs)) = Accepted(j)
    /\ FortySizes = << 16, 16, 8 >>

C11_Witness ==
    /\ pc = "status"
    /\ elements_batch_size = 1
    /\ output = << {1, 2}, {1} >>
    /\ enrichLog = << [model |-> 1, element_batch |-> << 1 >>],
                      [model |-> 1, element_batch |-> << 2 >>],
                      [model |-> 2, element_batch |-> << 1 >>] >>


\* the page records have been created (lines 138-139 have run)
PagesCreated == pc \notin {"execute", "build"} /\ valid /\ in_backend = "pdf"

\* C12: once the page records are created, and in the returned result, the
\* page list holds exactly one record per page of the document, with unique
\* page indices, the record at position i having page index i, whatever the
\* batches being processed.
C12_PageListOrdered ==
    PagesCreated =>
        /\ Len(pages) = page_count
        /\ \A i \in 1..Len(pages) : pages[i].page_no = i - 1
        /\ \A i, k \in 1..Len(pages) : pages[i].page_no = pages[k].page_no => i = k

C12_Witness ==
    /\ Done /\ outcome = "returned" /\ status = "PARTIAL_SUCCESS"
    /\ page_count = 3 /\ page_batch_size = 2
    /\ Len(pages) = 3 /\ pages[3].page_no = 2


\* the build phase is over, by return or by exception
BuildOver ==
    PagesCreated /\ pc \in {"assemble", "enrich", "enrich_batches", "status", "guard", "done"}

\* C13: after the build phase completes, whether it succeeded or failed, the
\* backend back-reference of every page record has been cleared (is None).
C13_BackendCleared ==
    BuildOver => \A i \in 1..Len(pages) : pages[i].backend = "None"


\* C14: a result returned by execute has status FAILURE, PARTIAL_SUCCESS or
\* SUCCESS, never PENDING or STARTED.
C14_FinalStatus ==
    outcome = "returned" =>
        (Done /\ status \in {"FAILURE", "PARTIAL_SUCCESS", "SUCCESS"})

C14_Witness ==
    Done /\ outcome = "returned" /\ exc = "RuntimeError" /\ status = "FAILURE"

\* C15: within one execute, a status set to FAILURE is never changed again,
\* and a status once downgraded is never upgraded: status determination does
\* not override a FAILURE set by the build phase or by the guard.
C15_FailureSticks ==
    [][/\ status = "FAILURE" => status' = "FAILURE"
       /\ status = "PARTIAL_SUCCESS" => status' \in {"PARTIAL_SUCCESS", "FAILURE"}
       /\ st_status = "PARTIAL_SUCCESS" => st_status' = "PARTIAL_SUCCESS"]_vars

C15_Witness ==
    /\ Done /\ exc = "build" /\ ~raises_on_error /\ status = "FAILURE"
    /\ \A i \in 1..Len(pages) : pages[i].backend = "attached"
    /\ Len(pages) >= 2


\* C16: a batch size <= 0 (page_batch_size or elements_batch_size) is
\* rejected as a configuration error: the settings cannot hold it and the
\* pipeline never runs batching with it.
C16_BatchSizeRejected ==
    /\ pc \in {"build_loop", "batch"} => page_batch_size >= 1
    /\ pc \in {"enrich", "enrich_batches"} => elements_batch_size >= 1


\* C17: the enrich phase works on the assembled output document only: it
\* leaves the page list, every page record, the result status and the error
\* list unchanged.
C17_EnrichFrame ==
    [][(pc \in {"enrich", "enrich_batches"}) => UNCHANGED << pages, status, errors >>]_vars

C17_Witness ==
    /\ pc = "status" /\ st_i = 1
    /\ Len(enrichLog) >= 2
    /\ Len(pages) >= 2
    /\ status = "PENDING" /\ errors = << >>


\* C18: page batches are processed one at a time and stages are not
\* interleaved across batches: no page of a later batch is initialized or
\* enters a stage before every page of the batch before it has left the last
\* stage.
C18_BatchesSequential ==
    /\ \A q \in 1..Len(progress) :
          progress[q] > 0 =>
             \A i \in 1..(q - 1) :
                \/ progress[i] = NumStages + 1
                \/ {i, q} \subseteq Range(page_batch)
    /\ \A i \in 1..Len(progress) :
          progress[i] \notin {0, NumStages + 1} => i \in Range(page_batch)
    /\ \A c \in 1..Len(chunks) : \A k \in 1..Len(chunks[c]) : progress[chunks[c][k]] = 0

C18_Witness ==
    /\ pc = "batch"
    /\ page_count = 3 /\ page_batch_size = 2
    /\ batchLog = << << 0, 1 >> >>
    /\ page_batch = << 3 >>
    /\ progress = << NumStages + 1, NumStages + 1, 1 >>


StrictlyIncreasing(s) == \A a, b \in 1..Len(s) : a < b => s[a] < s[b]

\* C19: enrichment models run in the order of enrichment_pipe, each one
\* finishing all of its batches before the next starts; within one model the
\* elements are handed over in document traversal order, one batch after the
\* other.
C19_EnrichOrder ==
    /\ \A a, b \in 1..Len(enrichLog) : a < b => enrichLog[a].model <= enrichLog[b].model
    /\ \A k \in 1..Len(enrichLog) :
          /\ enrichLog[k].model <= enrich_i
          /\ enrichLog[k].model \in 1..NumEnrich
          /\ \A j \in 1..(enrichLog[k].model - 1) :
                Range(Flatten(BatchesOf(enrichLog, j))) = Accepted(j)
    /\ \A j \in 1..NumEnrich : StrictlyIncreasing(Flatten(BatchesOf(enrichLog, j)))
    /\ pc = "enrich_batches" =>
          \A c \in 1..Len(elem_chunks) : \A k \in 1..Len(elem_chunks[c]) :
             \A x \in Range(Flatten(BatchesOf(enrichLog, enrich_i))) : x < elem_chunks[c][k]

C19_Witness ==
    /\ pc = "status"
    /\ elements_batch_size = 1
    /\ output = << {1, 2}, {1, 2} >>
    /\ enrichLog = << [model |-> 1, element_batch |-> << 1 >>],
                      [model |-> 1, element_batch |-> << 2 >>],
                      [model |-> 2, element_batch |-> << 1 >>],
                      [model |-> 2, element_batch |-> << 2 >>] >>


\* C22: a page's backend is used only during the build phase: once the
\* document backend has been unloaded, no step of execute (assemble, enrich,
\* status determination) reads or calls a page backend. is_valid() is the
\* only call that leaves a page backend "valid" or "invalid".
C22_BackendUnusedAfterUnload ==
    unloads >= 1 => \A i \in 1..Len(pages) : pages[i].backend \notin {"valid", "invalid"}


\* times page index i occurs in the batches the build loop has taken
TimesBatched(i) ==
    LET all == Flatten(batchLog)
    IN  Cardinality({ k \in 1..Len(all) : all[k] = i })

\* one step moves a page at most one position along the chain, and only a
\* page of the batch in hand
C23_StageStep ==
    \A i \in 1..Len(progress) :
        \/ progress'[i] = progress[i]
        \/ /\ pc = "batch"
           /\ i \in Range(page_batch)
           /\ progress'[i] = progress[i] + 1

\* C23: in a build phase without fault, every page is passed to
\* initialize_page exactly once, before any stage sees it, and then passes
\* each stage of build_pipe exactly once in list order; no page is processed
\* in two batches and none is skipped.
C23_EachPageEachStageOnce ==
    /\ [][C23_StageStep]_vars
    /\ [](\A i \in 1..Len(progress) :
            /\ progress[i] \in 0..(NumStages + 1)
            /\ progress[i] >= 1 <=> pages[i].backend # "None"
            /\ TimesBatched(pages[i].page_no) <= 1
            /\ TimesBatched(pages[i].page_no) = 1 => progress[i] = NumStages + 1
            /\ progress[i] \in 1..NumStages => i \in Range(page_batch))
    /\ [](BuildLoopFinished =>
            \A i \in 1..Len(progress) :
                progress[i] = NumStages + 1 /\ TimesBatched(pages[i].page_no) = 1)

C23_Witness ==
    /\ BuildLoopFinished
    /\ Len(pages) = 3 /\ page_batch_size = 2
    /\ \A i \in 1..Len(progress) : progress[i] = NumStages + 1


\* C24: the error list is append-only during execute: an item once appended
\* is never removed, replaced or reordered, and items are appended only by
\* status determination, one page at a time, in increasing page order.
C24_ErrorsAppendOnly ==
    /\ [][/\ IsPrefix(errors, errors')
          /\ errors' # errors =>
                /\ pc = "status"
                /\ errors' = Append(errors, ErrorItem(pages[st_i]))]_vars
    /\ [](\A a, b \in 1..Len(errors) :
            a < b => errors[a].error_message < errors[b].error_message)

C24_Witness ==
    /\ Done
    /\ Len(errors) = 2
    /\ errors[1].error_message = 0 /\ errors[2].error_message = 2


\* C25: status determination never yields FAILURE: a document of
\* pageCount >= 1 pages that are all invalid ends PARTIAL_SUCCESS with
\* pageCount error items, and a document of zero pages ends SUCCESS with an
\* empty error list.
C25_StatusNeverFailure ==
    /\ st_status \in {"SUCCESS", "PARTIAL_SUCCESS"}
    /\ (Done /\ exc = "none" /\ valid) =>
          /\ status = st_status
          /\ (page_count >= 1 /\ Cardinality(InvalidPages) = page_count) =>
                (status = "PARTIAL_SUCCESS" /\ Len(errors) = page_count)
          /\ page_count = 0 => (status = "SUCCESS" /\ errors = << >>)

C25_Witness ==
    /\ Done /\ exc = "none" /\ valid
    /\ page_count = 2
    /\ InvalidPages = {1, 2}
    /\ status = "PARTIAL_SUCCESS"
    /\ Len(errors) = 2

C25_WitnessEmpty ==
    Done /\ exc = "none" /\ valid /\ page_count = 0 /\ status = "SUCCESS"


\* C27: with a finite document and stages that terminate on every batch,
\* execute eventually terminates: it returns the result or, only when
\* raises_on_error is true, raises the fault; on the success path no batch
\* of pages or of elements is left partly consumed.
C27_Terminates ==
    /\ <>Done
    /\ [](Done =>
            /\ outcome \in {"returned", "raised"}
            /\ outcome = "raised" => (raises_on_error /\ exc # "none")
            /\ exc = "none" =>
                  /\ chunks = << >>
                  /\ elem_chunks = << >>
                  /\ \A i \in 1..Len(progress) : progress[i] = NumStages + 1)
    /\ [](outcome # "running" => Done)

C27_Witness ==
    /\ Done /\ exc = "none" /\ outcome = "returned"
    /\ Len(batchLog) = 2
    /\ Len(enrichLog) >= 2


\* C26: for any sequence of get_image calls, the page backend renders at
\* most once per scale and repeated calls for a scale return the same cached
\* image; once the backend reference is None, get_image never calls a
\* backend and returns the cached image for a scale rendered earlier and None
\* (0) for any other scale.
C26_ImageCache ==
    /\ [](\A s \in 1..NumScales :
            /\ render_calls[s] <= 1
            /\ render_calls[s] = 1 <=> image_cache[s] # 0)
    /\ [](\A s, t \in 1..NumScales :
            (s # t /\ image_cache[s] # 0) => image_cache[s] # image_cache[t])
    /\ [](last_get.scale # 0 => last_get.image = image_cache[last_get.scale])
    /\ [][\A s \in 1..NumScales :
            image_cache[s] # 0 => image_cache'[s] = image_cache[s]]_vars
    /\ [][pg_backend = "None" =>
            UNCHANGED << image_cache, render_calls, images_made >>]_vars
    /\ [][(pg_backend # "None" /\ get_calls' # get_calls) => last_get'.image # 0]_vars

C26_Witness ==
    /\ pg_backend = "None"
    /\ render_calls = [s \in 1..NumScales |-> IF s = 1 THEN 1 ELSE 0]
    /\ get_calls = 4
    /\ last_get.scale = 1 /\ last_get.image = 1

C26_WitnessNone ==
    /\ pg_backend = "None"
    /\ image_cache[1] # 0
    /\ last_get = [scale |-> 2, image |-> 0]


\* C21: unload() of the PowerPoint backend is idempotent: any number of
\* calls after the first leaves the backend as one call does (source
\* reference cleared, a byte stream closed once) and raises no error.
C21_UnloadIdempotent ==
    /\ [](~unload_raised)
    /\ [](unload_calls >= 1 =>
            /\ path_or_stream = "None"
            /\ stream_closes = IF source_kind = "BytesIO" THEN 1 ELSE 0)
    /\ [][(unload_calls >= 1 /\ unload_calls' > unload_calls) =>
            UNCHANGED << ppt_pc, source_kind, path_or_stream, stream_closes,
                         unload_raised, parsed, ppt_doc, slides_left, slide_ind,
                         parent_slide, para_no, conv_outcome >>]_vars

C21_Witness ==
    /\ unload_calls = 3
    /\ source_kind = "BytesIO"
    /\ stream_closes = 1
    /\ path_or_stream = "None"


\* C28: convert does not propagate a failure to open the presentation: when
\* parsing the source raises, convert returns the empty document, with no
\* group, page, text, picture or table added.
C28_ParseFailureSwallowed ==
    parsed = "failed" =>
        /\ ppt_pc = "converted"
        /\ conv_outcome = "returned"
        /\ ppt_doc = << >>

C28_Witness ==
    /\ parsed = "failed"
    /\ conv_outcome = "returned"
    /\ path_or_stream = "BytesIO"
    /\ ppt_doc = << >>


\* the text items handle_text_elements has added
TextElements ==
    { i \in 1..Len(ppt_doc) :
        ppt_doc[i].kind = "text" /\ ppt_doc[i].label \in {"LIST_ITEM", "PARAGRAPH"} }

\* C29: every LIST_ITEM added by handle_text_elements has as parent a LIST
\* group created for the same paragraph (never no parent, never the slide
\* group), every PARAGRAPH has the slide group as parent, and each item
\* carries a provenance whose page index is the slide index.
C29_TextParents ==
    \A i \in TextElements :
        LET item == ppt_doc[i]
        IN  /\ item.parent \in 1..(i - 1)
            /\ item.page_no = item.slide
            /\ item.label = "LIST_ITEM" =>
                  /\ ppt_doc[item.parent].kind = "group"
                  /\ ppt_doc[item.parent].label = "LIST"
                  /\ ppt_doc[item.parent].para = item.para
            /\ item.label = "PARAGRAPH" =>
                  /\ ppt_doc[item.parent].kind = "group"
                  /\ ppt_doc[item.parent].label = "CHAPTER"
                  /\ ppt_doc[item.parent].slide = item.slide

C29_Witness ==
    /\ ppt_pc = "converted"
    /\ Len(ppt_doc) = 5
    /\ ppt_doc[3].label = "LIST" /\ ppt_doc[4].label = "LIST_ITEM"
    /\ ppt_doc[4].parent = 3
    /\ ppt_doc[5].label = "PARAGRAPH" /\ ppt_doc[5].parent = 1

C29_WitnessSubList ==
    \E i \in TextElements :
        /\ ppt_doc[i].label = "PARAGRAPH"
        /\ ppt_doc[i - 1].label = "LIST"
        /\ ppt_doc[i - 1].para = ppt_doc[i].para

====
